---------------------------- MODULE Spec2Model ----------------------------
(***************************************************************************)
(* A model of gpass: the PGP engine (package encrypt) and the git          *)
(* repository wrapper (package git), both in src/encrypt/encrypt.go.       *)
(*                                                                         *)
(* The PGP engine is checked under SpecPGP, the repository under SpecGit.  *)
(* The calls into golang.org/x/crypto/openpgp and gopkg.in/src-d/go-git.v4 *)
(* are modelled at the call sites by what those libraries do.              *)
(***************************************************************************)
EXTENDS Integers, Sequences, FiniteSets, TLC

VARIABLES
    f,           \* the PGP value: PrivateKey, Message, Encrypted
    entityList,  \* the package-level keyring
    files,       \* the files on disk, by path
    pc,          \* "idle"; inside Decrypt, "prompt" while passPrompt waits in
                 \* shellPrompt and "findkey" when passPrompt has returned
    ci,          \* index of the candidate key passPrompt is asking for
    last,        \* the PGP call that returned last (or is pending)
    prev,        \* <<op, err>> of the PGP call before that one
    refs,        \* the repository's references: name -> commit
    HEAD,        \* the branch HEAD is a symbolic reference to
    parents,     \* the commit objects: commit -> set of parent commits
    glast        \* the repository call that returned last

pgpVars == <<f, entityList, files, pc, ci, last, prev>>
gitVars == <<refs, HEAD, parents, glast>>
vars == <<f, entityList, files, pc, ci, last, prev, refs, HEAD, parents, glast>>

-----------------------------------------------------------------------------
(* Bounds *)

\* The keyring holds at most this many entities.
MaxEntities == 2

\* The repository holds at most this many commit objects.
MaxCommits == 2

-----------------------------------------------------------------------------
(* Messages, keys and files *)

\* A byte payload that is not ASCII armor.
Raw(b) == [kind |-> "raw", type |-> "", keys |-> <<>>, body |-> b]

\* An armored block of type t; for a PGP MESSAGE, keys are the key ids of its
\* encrypted-session-key packets and body the plaintext it encrypts.
Armored(t, ks, b) == [kind |-> "armor", type |-> t, keys |-> ks, body |-> b]

PrivateKeyType == "PGP PRIVATE KEY BLOCK"
PublicKeyType == "PGP PUBLIC KEY BLOCK"
MessageType == "PGP MESSAGE"

\* The plaintext payloads callers hand to NewPGP.
Payloads == {<<>>, <<1>>}

\* What the passphrase prompt can read.
PassInputs == {"p1", "p2"}

NoEntity == [id |-> 0, locked |-> FALSE, pass |-> "", primEnc |-> FALSE, subs |-> <<>>]

\* The private key files callers hand to NewPGP: whether armor.Decode accepts
\* the bytes, the armor type, whether ReadEntity parses the body, and the
\* entity read (primary key id; whether the primary private key is
\* passphrase-protected and with what; whether the primary key may encrypt;
\* the subkeys).
KeyFiles == {
    \* unprotected key that may encrypt, no subkeys
    [armored |-> TRUE, type |-> PrivateKeyType, parses |-> TRUE,
     entity |-> [id |-> 1, locked |-> FALSE, pass |-> "", primEnc |-> TRUE, subs |-> <<>>]],
    \* protected signing key with an encryption subkey under another passphrase
    [armored |-> TRUE, type |-> PrivateKeyType, parses |-> TRUE,
     entity |-> [id |-> 4, locked |-> TRUE, pass |-> "p1", primEnc |-> FALSE,
                 subs |-> << [id |-> 5, locked |-> TRUE, pass |-> "p2", enc |-> TRUE] >>]],
    \* unprotected signing-only key
    [armored |-> TRUE, type |-> PrivateKeyType, parses |-> TRUE,
     entity |-> [id |-> 6, locked |-> FALSE, pass |-> "", primEnc |-> FALSE, subs |-> <<>>]],
    \* not armor
    [armored |-> FALSE, type |-> "", parses |-> FALSE, entity |-> NoEntity],
    \* an armored public key block
    [armored |-> TRUE, type |-> PublicKeyType, parses |-> TRUE, entity |-> NoEntity],
    \* a private key block whose packets do not parse
    [armored |-> TRUE, type |-> PrivateKeyType, parses |-> FALSE, entity |-> NoEntity] }

\* A nil private key: armor.Decode finds no block in it.
NoKey == [armored |-> FALSE, type |-> "", parses |-> FALSE, entity |-> NoEntity]

\* The messages callers hand to NewPGP, each with the flag they give it: a
\* payload under either flag, an armored block that is no PGP MESSAGE, or a
\* PGP MESSAGE read back from a file, encrypted to key 1 in an earlier run.
InputMessages ==
    ({Raw(b) : b \in Payloads} \X BOOLEAN)
        \cup {<<Armored(PrivateKeyType, <<>>, <<>>), TRUE>>,
              <<Armored(MessageType, <<1>>, <<1>>), TRUE>>}

RepoPaths == {"repo"}
FileNames == {"secret"}

\* path.Join(repoPath, filename)
Join(repoPath, filename) == <<repoPath, filename>>

Paths == {Join(r, n) : r \in RepoPaths, n \in FileNames}

NoPath == <<>>

NoFile == [exists |-> FALSE, readable |-> FALSE, content |-> Raw(<<>>)]

\* A file with the given content; readable tells whether os.Open succeeds.
File(c, rd) == [exists |-> TRUE, readable |-> rd, content |-> c]

\* len(f.Message) == 0
IsEmpty(m) == m.kind = "raw" /\ m.body = <<>>

-----------------------------------------------------------------------------
(* The history of PGP calls *)

\* A call, as its caller sees it: its name, the value it returned, what it
\* read from its caller and the system (in: the path and the I/O fault for
\* WriteFile, the passphrase for Keyring; rest: what the passphrase source
\* would supply if Keyring asked it again), and the message, the flag, the
\* keyring and the file at the path as they were when it was made.
Call(op, err, path, in) ==
    [op |-> op, err |-> err, path |-> path, in |-> in, rest |-> "",
     msg |-> f.Message, enc |-> f.Encrypted, keyring |-> entityList,
     old |-> IF path \in Paths THEN files[path] ELSE NoFile]

NoCall ==
    [op |-> "none", err |-> "ok", path |-> NoPath, in |-> "", rest |-> "",
     msg |-> Raw(<<>>), enc |-> FALSE, keyring |-> <<>>, old |-> NoFile]

\* What is kept of the call before the last one.
Before(c) == [op |-> c.op, err |-> c.err, path |-> c.path, msg |-> c.msg, enc |-> c.enc]

Returned(c) ==
    /\ last' = c
    /\ prev' = Before(last)


-----------------------------------------------------------------------------
(* NewPGP *)

\* NewPGP(k, nil, m, e): the value holds the key, the message and the flag as
\* given; with a nil prompt function the default passPrompt is installed.
NewPGP(k, m, e) ==
    /\ pc = "idle"
    /\ f' = [PrivateKey |-> k, Message |-> m, Encrypted |-> e]
    /\ Returned(Call("NewPGP", "ok", NoPath, ""))
    /\ UNCHANGED <<entityList, files, pc, ci, gitVars>>

-----------------------------------------------------------------------------
(* WriteFile *)

\* os.Open(p) returns no error: the file exists and may be read.
OpenOk(old) == old.exists /\ old.readable

\* WriteFileErr without the check of the Encrypted flag.
WriteFileErr_NoPlaintextGuard(m, e, old, io) ==
    IF IsEmpty(m) THEN "EmptyMessage"
    ELSE IF OpenOk(old) THEN "FileExists"
    ELSE IF (old.exists /\ ~old.readable) \/ io = "create" THEN "CreateError"
    ELSE IF io = "chmod" THEN "ChmodError"
    ELSE IF io = "write" THEN "WriteError"
    ELSE "ok"

\* WriteFileErr without the check for an existing file: os.Create truncates
\* a file that may be read.
WriteFileErr_NoExistsCheck(m, e, old, io) ==
    IF IsEmpty(m) THEN "EmptyMessage"
    ELSE IF ~e THEN "RefusePlaintextWrite"
    ELSE IF (old.exists /\ ~old.readable) \/ io = "create" THEN "CreateError"
    ELSE IF io = "chmod" THEN "ChmodError"
    ELSE IF io = "write" THEN "WriteError"
    ELSE "ok"

\* The value WriteFile returns, for message m with flag e, the file old at
\* the target path and the I/O fault io the system raises ("none" for none).
\* os.Create opens O_RDWR|O_CREATE|O_TRUNC, so it fails on an existing file
\* that may not be read.
WriteFileErr(m, e, old, io) ==
    IF IsEmpty(m) THEN "EmptyMessage"
    ELSE IF ~e THEN "RefusePlaintextWrite"
    ELSE IF OpenOk(old) THEN "FileExists"
    ELSE IF (old.exists /\ ~old.readable) \/ io = "create" THEN "CreateError"
    ELSE IF io = "chmod" THEN "ChmodError"
    ELSE IF io = "write" THEN "WriteError"
    ELSE "ok"

\* The file at the target path after WriteFile returned err: created and
\* still empty when Chmod or Write failed, holding the message on success.
WriteFileResult(m, old, err) ==
    IF err \in {"ChmodError", "WriteError"} THEN File(Raw(<<>>), TRUE)
    ELSE IF err = "ok" THEN File(m, TRUE)
    ELSE old

IOFaults == {"none", "create", "chmod", "write"}

WriteFile(repoPath, filename, io) ==
    LET p == Join(repoPath, filename)
        err == WriteFileErr(f.Message, f.Encrypted, files[p], io)
    IN  /\ pc = "idle"
        /\ files' = [files EXCEPT ![p] = WriteFileResult(f.Message, files[p], err)]
        /\ Returned(Call("WriteFile", err, p, io))
        /\ UNCHANGED <<f, entityList, pc, ci, gitVars>>

-----------------------------------------------------------------------------
(* Keyring *)

\* packet.PrivateKey.Decrypt(passphrase): a key that is not encrypted stays
\* as it is; an encrypted one is decrypted by its own passphrase only.
DecryptKey(key, pw) ==
    IF key.locked /\ pw = key.pass THEN [key EXCEPT !.locked = FALSE] ELSE key

\* The value Keyring returns for key file k and the passphrase pw read.
KeyringErr(k, pw) ==
    IF ~k.armored THEN "NotArmored"
    ELSE IF k.type # PrivateKeyType THEN "NotPrivateKey"
    ELSE IF ~k.parses THEN "KeyParseError"
    ELSE IF k.entity.locked /\ DecryptKey(k.entity, pw).locked THEN "KeyDecryptFailed"
    ELSE "ok"

\* The entity Keyring appends: the primary key decrypted, each subkey
\* decrypted if the passphrase fits it (the result of that call is dropped).
KeyringEntity(k, pw) ==
    [DecryptKey(k.entity, pw) EXCEPT
        !.subs = [j \in DOMAIN k.entity.subs |-> DecryptKey(k.entity.subs[j], pw)]]

\* KeyringResult appending the entity whatever Keyring returns.
KeyringResult_AlwaysAppend(el, k, pw, err) == Append(el, KeyringEntity(k, pw))

\* The keyring after Keyring returned err.
KeyringResult(el, k, pw, err) ==
    IF err = "ok" THEN Append(el, KeyringEntity(k, pw)) ELSE el

\* The number of passphrases Keyring reads for key file k: one, read before
\* the key is looked at, and none after it.
KeyringAsked(k) == 1

\* Keyring() with a passphrase source that supplies pw first and rest to a
\* second question.
Keyring(pw, rest) ==
    LET err == KeyringErr(f.PrivateKey, pw)
    IN  /\ pc = "idle"
        /\ err = "ok" => Len(entityList) < MaxEntities
        /\ entityList' = KeyringResult(entityList, f.PrivateKey, pw, err)
        /\ Returned([Call("Keyring", err, NoPath, pw) EXCEPT !.rest = rest])
        /\ UNCHANGED <<f, files, pc, ci, gitVars>>

-----------------------------------------------------------------------------
(* Encrypt *)

\* Entity.encryptionKey: the newest subkey flagged for encryption, else the
\* primary key if it may encrypt; 0 when the entity has no encryption key.
EncryptionKey(e) ==
    LET encSubs == {j \in DOMAIN e.subs : e.subs[j].enc}
    IN  IF encSubs # {}
        THEN e.subs[CHOOSE j \in encSubs : \A i \in encSubs : i <= j].id
        ELSE IF e.primEnc THEN e.id ELSE 0

\* EncryptErr without the check of the Encrypted flag.
EncryptErr_NoGuard(e, el) ==
    IF \E i \in DOMAIN el : EncryptionKey(el[i]) = 0 THEN "EncryptionError" ELSE "ok"

\* The value Encrypt returns for flag e and keyring el: openpgp.Encrypt fails
\* when a recipient has no encryption key; an empty recipient list is no error.
EncryptErr(e, el) ==
    IF e THEN "AlreadyEncrypted"
    ELSE IF \E i \in DOMAIN el : EncryptionKey(el[i]) = 0 THEN "EncryptionError"
    ELSE "ok"

\* The armored message openpgp.Encrypt writes for payload m: one encrypted
\* session key per entity of the keyring, in keyring order.
Ciphertext(m, el) ==
    Armored(MessageType, [i \in DOMAIN el |-> EncryptionKey(el[i])], m.body)

\* The PGP value after Encrypt returned err.
EncryptResult(v, el, err) ==
    IF err = "ok"
    THEN [v EXCEPT !.Message = Ciphertext(v.Message, el), !.Encrypted = TRUE]
    ELSE v

Encrypt ==
    LET err == EncryptErr(f.Encrypted, entityList)
    IN  /\ pc = "idle"
        /\ f' = EncryptResult(f, entityList, err)
        /\ Returned(Call("Encrypt", err, NoPath, ""))
        /\ UNCHANGED <<entityList, files, pc, ci, gitVars>>

-----------------------------------------------------------------------------
(* Decrypt *)

\* The keys of keyring el: <<i, 0>> is entity i's primary key, <<i, j>> its
\* j-th subkey.
KeyRefs(el) == UNION {{<<i, j>> : j \in 0..Len(el[i].subs)} : i \in DOMAIN el}

KeyAt(el, r) == IF r[2] = 0 THEN el[r[1]] ELSE el[r[1]].subs[r[2]]

\* EntityList.KeysById
KeysById(el, id) == {r \in KeyRefs(el) : KeyAt(el, r).id = id}

\* The first key of a set, in keyring order.
FirstRef(S) ==
    CHOOSE r \in S : \A q \in S : r[1] < q[1] \/ (r[1] = q[1] /\ r[2] <= q[2])

RECURSIVE Dedupe(_)
Dedupe(s) ==
    IF s = <<>> THEN <<>>
    ELSE LET r == Dedupe(SubSeq(s, 1, Len(s) - 1))
             x == s[Len(s)]
         IN  IF \E i \in DOMAIN r : r[i] = x THEN r ELSE Append(r, x)

\* CanDecrypt looking at the keys of the first entity only.
CanDecrypt_FirstEntityOnly(el, m) ==
    \E n \in DOMAIN m.keys :
        \E r \in KeysById(el, m.keys[n]) : r[1] = 1 /\ ~KeyAt(el, r).locked

\* ReadMessage, FindKey: some key a session key is encrypted to is in the
\* keyring with its private key decrypted.
CanDecrypt(el, m) ==
    \E n \in DOMAIN m.keys : \E r \in KeysById(el, m.keys[n]) : ~KeyAt(el, r).locked

\* ReadMessage, FindKey: the still encrypted private keys offered to the
\* prompt function, one per fingerprint, in packet order.
Candidates(el, m) ==
    LET ids == SelectSeq(Dedupe(m.keys), LAMBDA k : KeysById(el, k) # {})
    IN  [n \in DOMAIN ids |-> FirstRef(KeysById(el, ids[n]))]

\* What Decrypt does before any prompt: an error, "ok" when a decrypted key
\* fits, "pending" when ReadMessage calls the prompt function.
DecryptErr(m, e, el) ==
    IF ~e THEN "NotEncrypted"
    ELSE IF m.kind # "armor" THEN "InvalidArmor"
    ELSE IF m.type # MessageType THEN "WrongMessageType"
    ELSE IF CanDecrypt(el, m) THEN "ok"
    ELSE IF Candidates(el, m) = <<>> THEN "DecryptionError"
    ELSE "pending"

\* DecryptResult leaving the Encrypted flag set.
DecryptResult_KeepFlag(v) == [v EXCEPT !.Message = Raw(v.Message.body)]

\* The PGP value after a successful Decrypt.
DecryptResult(v) == [v EXCEPT !.Message = Raw(v.Message.body), !.Encrypted = FALSE]

\* DecryptValue storing the result before the error is looked at.
DecryptValue_ClearOnError(v, err) ==
    IF err \in {"ok", "DecryptionError"} THEN DecryptResult(v) ELSE v

\* The PGP value after Decrypt returned err, or went to the prompt: the
\* message and the flag are assigned after the last error return only.
DecryptValue(v, err) == IF err = "ok" THEN DecryptResult(v) ELSE v

Decrypt ==
    LET err == DecryptErr(f.Message, f.Encrypted, entityList)
    IN  /\ pc = "idle"
        /\ f' = DecryptValue(f, err)
        /\ pc' = IF err = "pending" THEN "prompt" ELSE "idle"
        /\ ci' = 1
        /\ Returned(Call("Decrypt", err, NoPath, ""))
        /\ UNCHANGED <<entityList, files, gitVars>>

\* The keyring with key r decrypted.
Unlock(el, r) ==
    IF r[2] = 0 THEN [el EXCEPT ![r[1]].locked = FALSE]
    ELSE [el EXCEPT ![r[1]].subs[r[2]].locked = FALSE]

\* The index passPrompt asks for next after a passphrase that did not fit
\* candidate i of n: the next candidate, or, past the last one, the first
\* again (passPrompt returns a nil passphrase with a nil error, and
\* ReadMessage offers the same candidates once more).
NextCandidate(i, n) == IF i < n THEN i + 1 ELSE 1

\* Where Decrypt stands after a passphrase that did not fit candidate i of n:
\* in passPrompt's loop, or, past the last candidate, back in ReadMessage
\* with passPrompt's return values, the named results pass and err, both nil.
AfterWrongPass(i, n) == IF i < n THEN "prompt" ELSE "findkey"

\* One shellPrompt inside passPrompt, reading passphrase pw for the
\* candidate at ci.
Prompt(pw) ==
    LET c == Candidates(entityList, f.Message)
        key == KeyAt(entityList, c[ci])
    IN  /\ pc = "prompt"
        /\ IF DecryptKey(key, pw).locked
           THEN /\ ci' = NextCandidate(ci, Len(c))
                /\ pc' = AfterWrongPass(ci, Len(c))
                /\ UNCHANGED <<f, entityList, last, prev>>
           ELSE /\ entityList' = Unlock(entityList, c[ci])
                /\ f' = DecryptResult(f)
                /\ pc' = "idle"
                /\ ci' = 1
                /\ last' = [last EXCEPT !.err = "ok"]
                /\ UNCHANGED prev
        /\ UNCHANGED <<files, gitVars>>

\* ReadMessage after the prompt function returned a nil passphrase and a nil
\* error: no key was decrypted, so its loop finds the same candidates and
\* calls the prompt function again.
FindKey ==
    /\ pc = "findkey"
    /\ pc' = "prompt"
    /\ ci' = 1
    /\ UNCHANGED <<f, entityList, files, last, prev, gitVars>>

-----------------------------------------------------------------------------
(* The repository: reference names *)

\* A name is the sequence of its path components: refs/heads/a is
\* <<"refs", "heads", "a">>.

\* fmt.Sprintf("refs/heads/%s", s)
BranchRef(s) == <<"refs", "heads">> \o s

\* fmt.Sprintf("refs/tags/%s", s)
TagRef(s) == <<"refs", "tags">> \o s

HasPrefix(n, pre) == Len(n) >= Len(pre) /\ SubSeq(n, 1, Len(pre)) = pre

\* ReferenceName.IsBranch, IsTag, Short
IsBranch(n) == HasPrefix(n, <<"refs", "heads">>)
IsTag(n) == HasPrefix(n, <<"refs", "tags">>)
Short(n) == IF IsBranch(n) \/ IsTag(n) THEN SubSeq(n, 3, Len(n)) ELSE n

\* The branch and tag names callers pass.
InputNames == {<<"main">>, <<"a">>}

\* The tag names callers pass to AddTagBranch: short, or written out in full.
TagInputs == {<<"a">>, <<"refs", "tags", "a">>}

\* The commit of the repository before any call.
RootCommit == 1

NoName == <<>>

-----------------------------------------------------------------------------
(* The repository: go-git's worktree *)

Out(err, rf, hd, ps) == [err |-> err, refs |-> rf, head |-> hd, parents |-> ps]

\* Worktree.Checkout(&CheckoutOptions{Branch: branch, Create: create, Hash:
\* hash}) on references rf with HEAD -> hd; a zero hash is 0. fault is where
\* the worktree fails: "unstaged" before HEAD moves, "reset" after it.
\* Validate refuses a hash with a branch unless Create is set; createBranch
\* refuses an existing name and starts the branch at hash, or at HEAD's
\* commit when hash is zero; then HEAD is set to the branch and Reset sets
\* the branch to the commit checked out.
Checkout(rf, hd, ps, branch, create, hash, fault) ==
    IF ~create /\ hash # 0 THEN Out("BranchHashExclusive", rf, hd, ps)
    ELSE IF create /\ branch \in DOMAIN rf THEN Out("BranchExists", rf, hd, ps)
    ELSE IF create /\ hash = 0 /\ hd \notin DOMAIN rf THEN Out("ReferenceNotFound", rf, hd, ps)
    ELSE LET start == IF hash # 0 THEN hash ELSE rf[hd]
             rf1 == IF create THEN (branch :> start) @@ rf ELSE rf
         IN  IF fault = "unstaged" THEN Out("WorktreeError", rf1, hd, ps)
             ELSE IF branch \notin DOMAIN rf1 THEN Out("ReferenceNotFound", rf1, hd, ps)
             ELSE LET c == IF create THEN start ELSE rf1[branch]
                  IN  IF fault = "reset" THEN Out("WorktreeError", rf1, branch, ps)
                      ELSE Out("ok", (branch :> c) @@ rf1, branch, ps)

\* The parents CommitOptions.Validate gives a commit whose Parents are empty:
\* the commit HEAD resolves to, none when HEAD does not resolve.
DefaultParents(rf, hd) == IF hd \in DOMAIN rf THEN {rf[hd]} ELSE {}

\* Worktree.Commit with empty Parents: a new commit object on top of
\* DefaultParents, and the reference HEAD names set to it.
CommitOn(rf, hd, ps, fault) ==
    IF fault = "commit" THEN Out("CommitError", rf, hd, ps)
    ELSE LET c == Cardinality(DOMAIN ps) + 1
         IN  Out("ok", (hd :> c) @@ rf, hd, (c :> DefaultParents(rf, hd)) @@ ps)

WorktreeFaults == {"none", "unstaged", "reset"}
CommitFaults == {"none", "commit"}

-----------------------------------------------------------------------------
(* The repository: its calls *)

\* A call, as its caller sees it: its name, the value it returned (err, and
\* bool or list for the queries) and its arguments.
GCall(op, err, a1, a2, create, bool, list) ==
    [op |-> op, err |-> err, a1 |-> a1, a2 |-> a2, create |-> create,
     listingFails |-> FALSE, bool |-> bool, list |-> list]

\* A query, as its caller sees it, with whether References() failed under it.
GQuery(op, err, a1, listingFails, bool, list) ==
    [GCall(op, err, a1, NoName, FALSE, bool, list) EXCEPT !.listingFails = listingFails]

NoGCall == GCall("none", "ok", NoName, NoName, FALSE, FALSE, {})

GReturned(c) == glast' = c

Apply(out) ==
    /\ refs' = out.refs
    /\ HEAD' = out.head
    /\ parents' = out.parents

\* CreateBranchOut checking out the new name as given, without refs/heads/.
CreateBranchOut_NoPrefix(rf, hd, ps, origin, new, fault) ==
    IF BranchRef(origin) \notin DOMAIN rf THEN Out("ReferenceNotFound", rf, hd, ps)
    ELSE Checkout(rf, hd, ps, new, TRUE, rf[BranchRef(origin)], fault)

\* CreateBranch(origin, new)
CreateBranchOut(rf, hd, ps, origin, new, fault) ==
    IF BranchRef(origin) \notin DOMAIN rf THEN Out("ReferenceNotFound", rf, hd, ps)
    ELSE Checkout(rf, hd, ps, BranchRef(new), TRUE, rf[BranchRef(origin)], fault)

CreateBranch(origin, new, fault) ==
    LET out == CreateBranchOut(refs, HEAD, parents, origin, new, fault)
    IN  /\ Apply(out)
        /\ GReturned(GCall("CreateBranch", out.err, origin, new, TRUE, FALSE, {}))
        /\ UNCHANGED pgpVars

\* CreateOrphanBranch(u, s)
CreateOrphanBranchOut(rf, hd, ps, s, wfault, cfault) ==
    LET co == Checkout(rf, hd, ps, BranchRef(s), TRUE, 0, wfault)
    IN  IF co.err # "ok" THEN co
        ELSE CommitOn(co.refs, co.head, co.parents, cfault)

CreateOrphanBranch(s, wfault, cfault) ==
    LET out == CreateOrphanBranchOut(refs, HEAD, parents, s, wfault, cfault)
    IN  /\ Cardinality(DOMAIN parents) < MaxCommits
        /\ Apply(out)
        /\ GReturned(GCall("CreateOrphanBranch", out.err, s, NoName, TRUE, FALSE, {}))
        /\ UNCHANGED pgpVars

\* CheckoutBranchOut creating the branch when it is missing.
CheckoutBranchOut_CreateIfMissing(rf, hd, ps, s, fault) ==
    Checkout(rf, hd, ps, BranchRef(s), BranchRef(s) \notin DOMAIN rf, 0, fault)

\* CheckoutBranch(s)
CheckoutBranchOut(rf, hd, ps, s, fault) ==
    Checkout(rf, hd, ps, BranchRef(s), FALSE, 0, fault)

CheckoutBranch(s, fault) ==
    LET out == CheckoutBranchOut(refs, HEAD, parents, s, fault)
    IN  /\ Apply(out)
        /\ GReturned(GCall("CheckoutBranch", out.err, s, NoName, FALSE, FALSE, {}))
        /\ UNCHANGED pgpVars

\* The name of the reference AddTagBranch(tag, s) writes.
TagName(tag) == tag

\* AddTagBranch(tag, s); fault "store" is the storer refusing the write.
AddTagBranchOut(rf, hd, ps, tag, s, fault) ==
    IF BranchRef(s) \notin DOMAIN rf THEN Out("ReferenceNotFound", rf, hd, ps)
    ELSE IF fault = "store" THEN Out("RefWriteError", rf, hd, ps)
    ELSE Out("ok", (TagName(tag) :> rf[BranchRef(s)]) @@ rf, hd, ps)

StoreFaults == {"none", "store"}

AddTagBranch(tag, s, fault) ==
    LET out == AddTagBranchOut(refs, HEAD, parents, tag, s, fault)
    IN  /\ Apply(out)
        /\ GReturned(GCall("AddTagBranch", out.err, tag, s, FALSE, FALSE, {}))
        /\ UNCHANGED pgpVars

\* TagBranch(s, create)
TagBranchOut(rf, hd, ps, s, create, fault) ==
    IF TagRef(s) \notin DOMAIN rf THEN Out("ReferenceNotFound", rf, hd, ps)
    ELSE Checkout(rf, hd, ps, BranchRef(s), create, rf[TagRef(s)], fault)

TagBranch(s, create, fault) ==
    LET out == TagBranchOut(refs, HEAD, parents, s, create, fault)
    IN  /\ Apply(out)
        /\ GReturned(GCall("TagBranch", out.err, s, NoName, create, FALSE, {}))
        /\ UNCHANGED pgpVars

\* CommitFile(u, filename, msg); fault "add" is Worktree.Add failing.
CommitFileOut(rf, hd, ps, fault) ==
    IF fault = "add" THEN Out("AddError", rf, hd, ps)
    ELSE CommitOn(rf, hd, ps, fault)

CommitFile(fault) ==
    LET out == CommitFileOut(refs, HEAD, parents, fault)
    IN  /\ Cardinality(DOMAIN parents) < MaxCommits
        /\ Apply(out)
        /\ GReturned(GCall("CommitFile", out.err, NoName, NoName, FALSE, FALSE, {}))
        /\ UNCHANGED pgpVars

\* Commit(u, filename, msg)
Commit(fault) ==
    LET out == CommitOn(refs, HEAD, parents, fault)
    IN  /\ Cardinality(DOMAIN parents) < MaxCommits
        /\ Apply(out)
        /\ GReturned(GCall("Commit", out.err, NoName, NoName, FALSE, FALSE, {}))
        /\ UNCHANGED pgpVars

\* What References() yields: the references under refs/, or, when listing
\* fails, an error and a nil iterator.
Listed(rf) == {n \in DOMAIN rf : HasPrefix(n, <<"refs">>)}

\* refs.ForEach on the iterator References() returned: a call on a nil
\* interface value panics.
ForEachErr(listingFails) == IF listingFails THEN "panic" ELSE "ok"

\* ListBranches()
ListBranchesValue(rf) == {Short(n) : n \in {x \in Listed(rf) : IsBranch(x)}}

ListBranches(listingFails) ==
    LET err == ForEachErr(listingFails)
    IN  /\ GReturned(GQuery("ListBranches", err, NoName, listingFails, FALSE,
                            IF err = "ok" THEN ListBranchesValue(refs) ELSE {}))
        /\ UNCHANGED <<refs, HEAD, parents, pgpVars>>

\* BranchExists(n)
BranchExistsValue(rf, n) == \E x \in Listed(rf) : IsBranch(x) /\ Short(x) = n

BranchExists(n, listingFails) ==
    LET err == ForEachErr(listingFails)
    IN  /\ GReturned(GQuery("BranchExists", err, n, listingFails,
                            err = "ok" /\ BranchExistsValue(refs, n), {}))
        /\ UNCHANGED <<refs, HEAD, parents, pgpVars>>

\* TagExists(n)
TagExistsValue(rf, n) == \E x \in Listed(rf) : IsTag(x) /\ Short(x) = n

TagExists(n, listingFails) ==
    LET err == ForEachErr(listingFails)
    IN  /\ GReturned(GQuery("TagExists", err, n, listingFails,
                            err = "ok" /\ TagExistsValue(refs, n), {}))
        /\ UNCHANGED <<refs, HEAD, parents, pgpVars>>

\* RemoveBranch(n): removing a reference that is not there is no error.
RemoveBranchOut(rf, hd, ps, n, fault) ==
    IF fault = "store" THEN Out("RefDeleteError", rf, hd, ps)
    ELSE Out("ok", [x \in (DOMAIN rf) \ {BranchRef(n)} |-> rf[x]], hd, ps)

RemoveBranch(n, fault) ==
    LET out == RemoveBranchOut(refs, HEAD, parents, n, fault)
    IN  /\ Apply(out)
        /\ GReturned(GCall("RemoveBranch", out.err, n, NoName, FALSE, FALSE, {}))
        /\ UNCHANGED pgpVars

-----------------------------------------------------------------------------
(* Specifications *)

\* NewPGP as cmd/init.go calls it, on a disk where the secret files are
\* absent, or present and readable, or present and not readable, and a
\* repository loaded with branch main checked out at its root commit.
InitPGP ==
    /\ f \in {[PrivateKey |-> k, Message |-> Raw(<<>>), Encrypted |-> TRUE] : k \in KeyFiles}
    /\ entityList = <<>>
    /\ files \in [Paths -> {NoFile, File(Raw(<<1>>), TRUE), File(Raw(<<1>>), FALSE)}]
    /\ pc = "idle"
    /\ ci = 1
    /\ last = NoCall
    /\ prev = Before(NoCall)

InitGit ==
    /\ refs = (BranchRef(<<"main">>) :> RootCommit)
    /\ HEAD = BranchRef(<<"main">>)
    /\ parents = (RootCommit :> {})
    /\ glast = NoGCall

\* The repository calls are checked with no PGP value in use.
NoPGP ==
    /\ f = [PrivateKey |-> NoKey, Message |-> Raw(<<>>), Encrypted |-> TRUE]
    /\ entityList = <<>>
    /\ files = [p \in Paths |-> NoFile]
    /\ pc = "idle"
    /\ ci = 1
    /\ last = NoCall
    /\ prev = Before(NoCall)

\* NewPGP is called to build a keyring from a key file, or to hold a message.
NextPGP ==
    \/ \E k \in KeyFiles : NewPGP(k, Raw(<<>>), TRUE)
    \/ \E me \in InputMessages : NewPGP(NoKey, me[1], me[2])
    \/ \E r \in RepoPaths, n \in FileNames, io \in IOFaults : WriteFile(r, n, io)
    \/ \E pw \in PassInputs, rest \in PassInputs : Keyring(pw, rest)
    \/ Encrypt
    \/ Decrypt
    \/ \E pw \in PassInputs : Prompt(pw)
    \/ FindKey

NextGit ==
    \/ \E o \in InputNames, n \in InputNames, w \in WorktreeFaults : CreateBranch(o, n, w)
    \/ \E s \in InputNames, w \in WorktreeFaults, c \in CommitFaults : CreateOrphanBranch(s, w, c)
    \/ \E s \in InputNames, w \in WorktreeFaults : CheckoutBranch(s, w)
    \/ \E t \in TagInputs, s \in InputNames, w \in StoreFaults : AddTagBranch(t, s, w)
    \/ \E s \in InputNames, c \in BOOLEAN, w \in WorktreeFaults : TagBranch(s, c, w)
    \/ \E c \in CommitFaults \cup {"add"} : CommitFile(c)
    \/ \E c \in CommitFaults : Commit(c)
    \/ \E b \in BOOLEAN : ListBranches(b)
    \/ \E n \in InputNames, b \in BOOLEAN : BranchExists(n, b)
    \/ \E n \in InputNames, b \in BOOLEAN : TagExists(n, b)
    \/ \E n \in InputNames, w \in StoreFaults : RemoveBranch(n, w)

\* The PGP engine, beside a repository no call touches.
InitEngine == InitPGP /\ InitGit

SpecPGP == InitEngine /\ [][NextPGP]_vars

\* The repository, with no PGP value in use.
InitRepository == NoPGP /\ InitGit

SpecGit == InitRepository /\ [][NextGit]_vars

-----------------------------------------------------------------------------
(* The PGP engine's properties, under SpecPGP *)

\* C1, as claimed: WriteFile on a message whose Encrypted flag is false fails
\* with the refuse-plaintext-write error, whatever the message, empty or not,
\* and leaves the target path as it was.
C1_PlaintextAlwaysRefused ==
    (last.op = "WriteFile" /\ ~last.enc)
        => (last.err = "RefusePlaintextWrite" /\ files[last.path] = last.old)

\* C1, amended: WriteFile on a message whose Encrypted flag is false fails and
\* leaves the target path as it was; the error is refuse-plaintext-write for
\* a non-empty message and the empty-message error for an empty one.
C1_PlaintextNeverWritten ==
    (last.op = "WriteFile" /\ ~last.enc)
        => /\ last.err = IF IsEmpty(last.msg) THEN "EmptyMessage" ELSE "RefusePlaintextWrite"
           /\ files[last.path] = last.old

\* WriteFile has refused a non-empty plaintext message at a free path.
C1_Witness ==
    /\ last.op = "WriteFile"
    /\ ~last.enc
    /\ ~IsEmpty(last.msg)
    /\ last.err = "RefusePlaintextWrite"
    /\ ~files[last.path].exists

\* C2: WriteFile of a non-empty encrypted message to a free path succeeds when
\* no I/O fault occurs and the file then holds the message; WriteFile called
\* again right after that with the same path fails with the file-exists error
\* and the file still holds what the first call wrote.
C2_WriteOnce ==
    /\ (/\ last.op = "WriteFile"
        /\ last.enc
        /\ ~IsEmpty(last.msg)
        /\ ~last.old.exists
        /\ last.in = "none")
            => (last.err = "ok" /\ files[last.path].content = last.msg)
    /\ (/\ prev.op = "WriteFile"
        /\ prev.err = "ok"
        /\ last.op = "WriteFile"
        /\ last.path = prev.path)
            => /\ last.err = "FileExists"
               /\ files[last.path] = last.old
               /\ files[last.path].content = prev.msg

\* WriteFile has been called twice in a row with the same path, the first
\* call having succeeded.
C2_Witness ==
    /\ prev.op = "WriteFile"
    /\ prev.err = "ok"
    /\ last.op = "WriteFile"
    /\ last.path = prev.path
    /\ last.err = "FileExists"
    /\ last.msg.kind = "armor"

\* The key the entity's messages are encrypted to is in the entity with its
\* private key decrypted.
CanRoundTrip(e) ==
    /\ EncryptionKey(e) # 0
    /\ \E r \in KeysById(<<e>>, EncryptionKey(e)) : ~KeyAt(<<e>>, r).locked

\* C3, as claimed: with a keyring of exactly one entity, Encrypt of a
\* plaintext message succeeds, and Decrypt called right after it succeeds and
\* leaves the message as it was before Encrypt, with the flag false.
C3_RoundTripAnyEntity ==
    /\ (last.op = "Encrypt" /\ ~last.enc /\ Len(last.keyring) = 1)
            => last.err = "ok"
    /\ (/\ prev.op = "Encrypt"
        /\ prev.err = "ok"
        /\ last.op = "Decrypt"
        /\ Len(last.keyring) = 1)
            => (last.err = "ok" /\ f.Message = prev.msg /\ ~f.Encrypted)

\* C3, amended: the same, for a keyring whose one entity has an encryption
\* key with its private key decrypted.
C3_RoundTrip ==
    /\ (/\ last.op = "Encrypt"
        /\ ~last.enc
        /\ Len(last.keyring) = 1
        /\ CanRoundTrip(last.keyring[1]))
            => last.err = "ok"
    /\ (/\ prev.op = "Encrypt"
        /\ prev.err = "ok"
        /\ last.op = "Decrypt"
        /\ Len(last.keyring) = 1
        /\ CanRoundTrip(last.keyring[1]))
            => (last.err = "ok" /\ f.Message = prev.msg /\ ~f.Encrypted)

\* Decrypt has returned a non-empty payload right after Encrypt encrypted
\* it to a keyring of one entity.
C3_Witness ==
    /\ prev.op = "Encrypt"
    /\ prev.err = "ok"
    /\ ~IsEmpty(prev.msg)
    /\ last.op = "Decrypt"
    /\ last.err = "ok"
    /\ Len(last.keyring) = 1
    /\ CanRoundTrip(last.keyring[1])
    /\ f.Message = prev.msg

\* C4: Encrypt on a message whose flag is true fails with the
\* already-encrypted error, Decrypt on a message whose flag is false fails
\* with the not-encrypted error, and both leave the message and the flag as
\* they were.
C4_WrongStateRejected ==
    /\ (last.op = "Encrypt" /\ last.enc)
            => (last.err = "AlreadyEncrypted" /\ f.Message = last.msg /\ f.Encrypted = last.enc)
    /\ (last.op = "Decrypt" /\ ~last.enc)
            => (last.err = "NotEncrypted" /\ f.Message = last.msg /\ f.Encrypted = last.enc)

\* Encrypt has refused a ciphertext it had produced itself.
C4_Witness ==
    /\ prev.op = "Encrypt"
    /\ prev.err = "ok"
    /\ last.op = "Encrypt"
    /\ last.enc
    /\ last.err = "AlreadyEncrypted"

\* The primary key of key file k is passphrase-protected and pw does not
\* decrypt it.
PrimaryFails(k, pw) == k.entity.locked /\ pw # k.entity.pass

\* C10: Keyring appends exactly one entity to the keyring if it returns
\* success and leaves the keyring as it was otherwise; it returns an error
\* exactly when the key is not armored, is no private key block, does not
\* parse, or has a primary key the passphrase does not decrypt; a subkey the
\* passphrase does not decrypt changes none of this.
C10_KeyringAppendsIffSuccess ==
    last.op = "Keyring" =>
        LET k == f.PrivateKey
            fatal == \/ ~k.armored
                     \/ k.type # PrivateKeyType
                     \/ ~k.parses
                     \/ PrimaryFails(k, last.in)
        IN  /\ (last.err # "ok") <=> fatal
            /\ last.err = "ok" =>
                    /\ Len(entityList) = Len(last.keyring) + 1
                    /\ SubSeq(entityList, 1, Len(last.keyring)) = last.keyring
                    /\ entityList[Len(entityList)].id = k.entity.id
                    /\ ~entityList[Len(entityList)].locked
            /\ last.err # "ok" => entityList = last.keyring

\* Keyring has returned success and appended an entity one of whose subkeys
\* the passphrase did not decrypt.
C10_Witness ==
    /\ last.op = "Keyring"
    /\ last.err = "ok"
    /\ Len(entityList) = Len(last.keyring) + 1
    /\ \E j \in DOMAIN entityList[Len(entityList)].subs :
            entityList[Len(entityList)].subs[j].locked

\* Some file exists on disk.
SomeFile == \E p \in Paths : files[p].exists

\* armor.Decode accepts m and finds a PGP MESSAGE block.
IsPGPMessage(m) == m.kind = "armor" /\ m.type = MessageType

\* C11: a Decrypt that does not succeed (invalid armor, wrong armor type, no
\* matching key, or passphrases that do not fit) leaves the message, the
\* flag, the keyring and the files as they were; and Decrypt of a PGP MESSAGE
\* with a keyring that holds a decrypted key the message is encrypted to
\* succeeds and yields the payload, whatever failed before.
C11_FailedDecryptFrame ==
    [][/\ (last'.op = "Decrypt" /\ last'.err # "ok")
            => UNCHANGED <<f, entityList, files>>
       /\ (/\ last'.op = "Decrypt"
           /\ pc = "idle"
           /\ f.Encrypted
           /\ IsPGPMessage(f.Message)
           /\ CanDecrypt(entityList, f.Message))
            => (last'.err = "ok" /\ f' = DecryptResult(f))]_vars

\* Decrypt has failed for want of a matching key, with an entity in the
\* keyring and a file on disk.
C11_Witness ==
    /\ last.op = "Decrypt"
    /\ last.err = "DecryptionError"
    /\ last.msg.keys # <<>>
    /\ Len(entityList) >= 1
    /\ SomeFile
    /\ f.Message = last.msg
    /\ f.Encrypted

\* C12: Encrypt of a plaintext message while the keyring is empty fails with
\* the encryption error and leaves the message and the flag as they were.
C12_EmptyKeyringRefused ==
    (last.op = "Encrypt" /\ ~last.enc /\ last.keyring = <<>>)
        => (last.err = "EncryptionError" /\ f.Message = last.msg /\ f.Encrypted = last.enc)

\* C13: with a keyring of two entities of which only the second holds a
\* decrypted key the PGP MESSAGE is encrypted to, Decrypt succeeds, leaves the
\* payload as the message and clears the flag.
C13_SecondEntityDecrypts ==
    (/\ last.op = "Decrypt"
     /\ last.enc
     /\ IsPGPMessage(last.msg)
     /\ Len(last.keyring) = 2
     /\ ~CanDecrypt(<<last.keyring[1]>>, last.msg)
     /\ CanDecrypt(<<last.keyring[2]>>, last.msg))
        => (last.err = "ok" /\ f.Message = Raw(last.msg.body) /\ ~f.Encrypted)

\* Decrypt has returned a non-empty payload from a message only the second
\* of two entities could decrypt.
C13_Witness ==
    /\ last.op = "Decrypt"
    /\ last.err = "ok"
    /\ IsPGPMessage(last.msg)
    /\ Len(last.keyring) = 2
    /\ ~CanDecrypt(<<last.keyring[1]>>, last.msg)
    /\ CanDecrypt(<<last.keyring[2]>>, last.msg)
    /\ f.Message = Raw(<<1>>)
    /\ ~f.Encrypted

\* ReadEntity reads key file k, and its primary key or one of its subkeys is
\* passphrase-protected.
Protected(k) ==
    /\ k.armored
    /\ k.type = PrivateKeyType
    /\ k.parses
    /\ (k.entity.locked \/ \E j \in DOMAIN k.entity.subs : k.entity.subs[j].locked)

\* C15: Keyring reads no passphrase for a key that is not
\* passphrase-protected and at least one for a key that is; and for a
\* protected primary key, a passphrase source that supplies a passphrase that
\* does not fit and then the one that fits ends with success and the entity
\* appended to the keyring.
C15_KeyringAsksUntilDecrypted ==
    last.op = "Keyring" =>
        LET k == f.PrivateKey
        IN  /\ ~Protected(k) => KeyringAsked(k) = 0
            /\ Protected(k) => KeyringAsked(k) >= 1
            /\ (/\ Protected(k)
                /\ k.entity.locked
                /\ last.in # k.entity.pass
                /\ last.rest = k.entity.pass)
                    => /\ last.err = "ok"
                       /\ Len(entityList) = Len(last.keyring) + 1
                       /\ entityList[Len(entityList)].id = k.entity.id

\* C16: every file WriteFile creates holds OpenPGP armor: the message it
\* wrote was armored, so that no plaintext bytes are on disk.
C16_OnlyCiphertextOnDisk ==
    (last.op = "WriteFile" /\ last.err = "ok")
        => (last.msg.kind = "armor" /\ files[last.path].content.kind = "armor")

\* C17: WriteFile of a non-empty encrypted message to a path where a file
\* exists, readable or not, fails with the file-exists error and leaves the
\* file as it was.
C17_ExistingFileRefused ==
    (last.op = "WriteFile" /\ last.enc /\ ~IsEmpty(last.msg) /\ last.old.exists)
        => (last.err = "FileExists" /\ files[last.path] = last.old)

\* C18: when the passphrase read for the last key offered does not fit, so
\* that every offered key has been tried, Decrypt returns the decryption
\* error.
C18_DecryptTerminates ==
    [][(/\ pc = "prompt"
        /\ ci = Len(Candidates(entityList, f.Message))
        /\ entityList' = entityList)
            => (pc' = "idle" /\ last'.err = "DecryptionError")]_vars

-----------------------------------------------------------------------------
(* The repository's properties, under SpecGit *)

\* The errors that report a fault of the worktree or the storer, not of the
\* call's arguments.
FaultErrs == {"WorktreeError", "CommitError", "AddError", "RefWriteError", "RefDeleteError"}

\* Every branch of rf is a branch of rf2 with the same tip.
BranchesKept(rf, rf2) ==
    \A x \in DOMAIN rf : IsBranch(x) => (x \in DOMAIN rf2 /\ rf2[x] = rf[x])

\* C5: a successful CreateOrphanBranch(u, s), on a repository whose
\* checked-out branch has commits, leaves branch s existing and checked out
\* with a tip commit that has no parents, and every branch that existed with
\* the tip it had.
C5_OrphanHasNoParents ==
    [][(/\ glast'.op = "CreateOrphanBranch"
        /\ glast'.err = "ok"
        /\ HEAD \in DOMAIN refs)
            => /\ BranchRef(glast'.a1) \in DOMAIN refs'
               /\ HEAD' = BranchRef(glast'.a1)
               /\ parents'[refs'[BranchRef(glast'.a1)]] = {}
               /\ BranchesKept(refs, refs')]_vars

\* C6: with branch b at commit C and no branch named t, AddTagBranch(t, b)
\* succeeds unless the storer fails, and TagBranch(t, create=true) called
\* right after a successful AddTagBranch(t, b) succeeds unless the worktree
\* fails, and leaves branch refs/heads/t at C.
C6_TagPromotion ==
    [][/\ (/\ glast'.op = "AddTagBranch"
           /\ BranchRef(glast'.a2) \in DOMAIN refs
           /\ glast'.err \notin FaultErrs)
                => glast'.err = "ok"
       /\ (/\ glast.op = "AddTagBranch"
           /\ glast.err = "ok"
           /\ BranchRef(glast.a1) \notin DOMAIN refs
           /\ glast'.op = "TagBranch"
           /\ glast'.a1 = glast.a1
           /\ glast'.create
           /\ glast'.err \notin FaultErrs)
                => /\ glast'.err = "ok"
                   /\ BranchRef(glast.a1) \in DOMAIN refs'
                   /\ refs'[BranchRef(glast.a1)] = refs[BranchRef(glast.a2)]]_vars

\* C7: a successful CreateBranch(origin, new) leaves branch new at the tip
\* origin had and checked out, adds no other reference, and leaves every
\* reference that existed, origin and the tags among them, and every commit
\* as it was.
C7_CreateBranchFrame ==
    [][(glast'.op = "CreateBranch" /\ glast'.err = "ok")
            => /\ BranchRef(glast'.a1) \in DOMAIN refs
               /\ BranchRef(glast'.a2) \in DOMAIN refs'
               /\ refs'[BranchRef(glast'.a2)] = refs[BranchRef(glast'.a1)]
               /\ HEAD' = BranchRef(glast'.a2)
               /\ DOMAIN refs' = DOMAIN refs \cup {BranchRef(glast'.a2)}
               /\ \A x \in DOMAIN refs : refs'[x] = refs[x]
               /\ parents' = parents]_vars

\* CreateBranch has succeeded from an origin that is not the branch that was
\* checked out, in a repository that holds a tag.
C7_Witness ==
    /\ glast.op = "CreateBranch"
    /\ glast.err = "ok"
    /\ glast.a1 # glast.a2
    /\ HEAD = BranchRef(glast.a2)
    /\ refs[BranchRef(glast.a2)] = refs[BranchRef(glast.a1)]
    /\ \E x \in DOMAIN refs : IsTag(x)

\* C8: AddTagBranch(t, b) with tag t existing and branch b existing succeeds,
\* unless the storer fails, and leaves tag t at b's tip; CreateBranch(o, n)
\* with branches o and n existing, and TagBranch(n, create=true) with tag n
\* and branch n existing, fail and leave branch n at the tip it had.
C8_CollisionAsymmetry ==
    [][/\ (/\ glast'.op = "AddTagBranch"
           /\ TagRef(glast'.a1) \in DOMAIN refs
           /\ BranchRef(glast'.a2) \in DOMAIN refs
           /\ glast'.err \notin FaultErrs)
                => /\ glast'.err = "ok"
                   /\ TagRef(glast'.a1) \in DOMAIN refs'
                   /\ refs'[TagRef(glast'.a1)] = refs[BranchRef(glast'.a2)]
       /\ (/\ glast'.op = "CreateBranch"
           /\ BranchRef(glast'.a1) \in DOMAIN refs
           /\ BranchRef(glast'.a2) \in DOMAIN refs)
                => /\ glast'.err # "ok"
                   /\ BranchRef(glast'.a2) \in DOMAIN refs'
                   /\ refs'[BranchRef(glast'.a2)] = refs[BranchRef(glast'.a2)]
       /\ (/\ glast'.op = "TagBranch"
           /\ glast'.create
           /\ TagRef(glast'.a1) \in DOMAIN refs
           /\ BranchRef(glast'.a1) \in DOMAIN refs)
                => /\ glast'.err # "ok"
                   /\ BranchRef(glast'.a1) \in DOMAIN refs'
                   /\ refs'[BranchRef(glast'.a1)] = refs[BranchRef(glast'.a1)]]_vars

\* C9: when References() fails under them, ListBranches returns the empty
\* list and BranchExists and TagExists return false, without a panic.
C9_QueriesNeverFail ==
    (glast.op \in {"ListBranches", "BranchExists", "TagExists"} /\ glast.listingFails)
        => (glast.err = "ok" /\ glast.bool = FALSE /\ glast.list = {})

\* C14: TagBranch(s, create=false) with tag refs/tags/s and branch
\* refs/heads/s existing succeeds, unless the worktree fails, and leaves
\* branch s checked out with its tip at the tag's commit.
C14_TagBranchSwitches ==
    [][(/\ glast'.op = "TagBranch"
        /\ ~glast'.create
        /\ TagRef(glast'.a1) \in DOMAIN refs
        /\ BranchRef(glast'.a1) \in DOMAIN refs
        /\ glast'.err \notin FaultErrs)
            => /\ glast'.err = "ok"
               /\ HEAD' = BranchRef(glast'.a1)
               /\ BranchRef(glast'.a1) \in DOMAIN refs'
               /\ refs'[BranchRef(glast'.a1)] = refs[TagRef(glast'.a1)]]_vars

\* C19: HEAD names a branch that exists, and every reference points at a
\* commit that exists.
C19_ReferencesResolve ==
    /\ IsBranch(HEAD)
    /\ HEAD \in DOMAIN refs
    /\ \A x \in DOMAIN refs : refs[x] \in DOMAIN parents

\* C20: CreateBranch with a missing origin branch, CheckoutBranch with a
\* missing branch, AddTagBranch with a missing branch and TagBranch with a
\* missing tag return an error and leave every reference, HEAD and every
\* commit as they were.
C20_UnresolvedNameFrame ==
    [][(\/ glast'.op = "CreateBranch" /\ BranchRef(glast'.a1) \notin DOMAIN refs
        \/ glast'.op = "CheckoutBranch" /\ BranchRef(glast'.a1) \notin DOMAIN refs
        \/ glast'.op = "AddTagBranch" /\ BranchRef(glast'.a2) \notin DOMAIN refs
        \/ glast'.op = "TagBranch" /\ TagRef(glast'.a1) \notin DOMAIN refs)
            => /\ glast'.err # "ok"
               /\ UNCHANGED <<refs, HEAD, parents>>]_vars

\* CheckoutBranch has failed on a branch that does not exist, in a repository
\* that holds a tag and a second branch.
C20_Witness ==
    /\ glast.op = "CheckoutBranch"
    /\ glast.err = "ReferenceNotFound"
    /\ BranchRef(glast.a1) \notin DOMAIN refs
    /\ \E x \in DOMAIN refs : IsTag(x)
    /\ \E x \in DOMAIN refs : IsBranch(x) /\ x # HEAD

=============================================================================
